---- MODULE Spec2Model ----
(***************************************************************************)
(* Thema subject classification of iscc-metagen (src/iscc_metagen/thema.py) *)
(* as a state machine: parse_thema_codes (the ancestor walk that fills      *)
(* full_heading), the Thema index (db, main_subjects, sub_categories) and   *)
(* predict_categories_recursive (the root selection, the per-branch descent *)
(* of select_subcategories and the construction of the result), with       *)
(* load_thema_json and the Thema every predict_categories call builds, and  *)
(* generate_metadata of src/iscc_metagen/main.py.                           *)
(*                                                                          *)
(* Strings are sequences of characters, so "" is << >>, len() is Len and    *)
(* str.isalpha() looks at every character. A ThemaCode object is its index  *)
(* in thema_codes (0 is Python's None). A ThemaSelection is represented by  *)
(* its category_code, the only field the classifier reads.                  *)
(***************************************************************************)
EXTENDS Integers, Sequences, FiniteSets, TLC

\* ------------------------------------------------------------------ bounds

\* Nested select_subcategories frames the interpreter allows before it raises
\* RecursionError (CPython's recursion limit, scaled down).
RecursionLimit == 2

\* Longest list of selections the language model may put into one raw answer.
MaxRaw == 4

\* Parent links one ancestor walk may follow in the model before it is cut off.
MaxHops == 5

\* Largest cost (in cost units) one completion reports.
MaxCost == 1

\* Most pages a document handed to pdf_extract_pages has.
MaxPages == 6

\* Largest first, middle or last a caller of pdf_extract_pages passes.
MaxTake == 2

\* --------------------------------------------------------- program constants

\* ThemaCategories.categories: Field(..., min_items=0, max_items=3)
MAX_ITEMS == 3

\* final_categories[:4]
TOP_N == 4

\* ---------------------------------------------------------------- taxonomy

A == <<"A">>
AB == <<"A", "B">>
B == <<"B">>
\* A code no node of the taxonomy carries.
ZZ == <<"Z", "Z">>

B1 == <<"B", "1">>
C == <<"C">>
\* A code of one digit.
ONE == <<"1">>
\* A code of one letter outside ASCII: the character U+00C4 (A with diaeresis).
UML == <<"U+00C4">>

\* The ASCII letters the codes of the model are written with.
Letters == {"A", "B", "C", "Z"}

\* Load order of the nodes (CodeValue of each entry of the JSON code list).
CodeList == <<A, AB, B>>

\* CodeDescription of each entry.
HeadingList == <<"Arts", "Arts general", "Biography">>

NumCodes == Len(CodeList)

\* The separator of " / ".join(...), one token of the joined string.
SEP == " / "

\* CodeParent values of well-formed data: empty or the code of a node.
ParentCodes == {<<>>} \cup {CodeList[i] : i \in 1..NumCodes}

\* CodeParent values of arbitrary data: also a code that resolves to no node.
RawParentCodes == ParentCodes \cup {ZZ}

\* [ThemaCode.model_validate(code) for code in codes] for the parent column p.
MakeCodes(p) ==
    [i \in 1..NumCodes |->
        [category_code |-> CodeList[i],
         category_heading |-> HeadingList[i],
         parent_code |-> p[i]]]

Max(S) == CHOOSE x \in S : \A y \in S : y <= x

Min2(a, b) == IF a <= b THEN a ELSE b

Last(s) == s[Len(s)]

\* {code.category_code: code for code in thema_codes}.get(key): the last entry
\* with that code wins, 0 (None) when no entry carries it.
code_dict_get(codes, key) ==
    LET S == {i \in DOMAIN codes : codes[i].category_code = key}
    IN IF S = {} THEN 0 ELSE Max(S)

\* The node reached from node i after k parent links, 0 once the walk has ended.
RECURSIVE StepUp(_, _, _)
StepUp(codes, i, k) ==
    IF i = 0 \/ k = 0 THEN i
    ELSE IF codes[i].parent_code = <<>> THEN 0
    ELSE StepUp(codes, code_dict_get(codes, codes[i].parent_code), k - 1)

\* No parent chain of the data runs into a cycle.
Acyclic(codes) == \A i \in DOMAIN codes : StepUp(codes, i, Len(codes)) = 0

\* Every taxonomy over CodeList, cyclic and orphaned parent links included.
RawTaxonomies == {MakeCodes(p) : p \in [1..NumCodes -> RawParentCodes]}

\* The taxonomies a Thema object can be built from: their parse returns.
Taxonomies ==
    {t \in {MakeCodes(p) : p \in [1..NumCodes -> ParentCodes]} : Acyclic(t)}

\* ------------------------------------------------------------------- state

VARIABLES
    pc,                   \* "parse", "parsed", "root_call", "sub_call", "done", "failed"
    thema_codes,          \* the nodes, in load order
    code_i,               \* parse: index of `code` in `for code in thema_codes`
    current_code,         \* parse: the node the walk stands on (0 = None)
    heading_list,         \* parse: the local list full_heading
    hops,                 \* parse: parent links followed for the current node
    full_heading,         \* node index -> its full_heading ("" until assigned)
    candidates,           \* the candidate codes of the selector call in flight
    top_level_categories, \* the root call's selections
    idx,                  \* position of `category` in top_level_categories
    branch,               \* [category] + the result lists of the open frames
    final_categories,     \* the collected deepest selections
    selected_empty,       \* the last descent response handled was empty
    result,               \* << >> or <<the returned ThemaCategories>>
    error,                \* the exception that ended the request, << >> if none
    calls,                \* selector calls issued by the request
    cost_sum,             \* sum of the costs the completions reported
    root_k,               \* length of the root call's raw answer
    last_selection,       \* per branch: the last selection made on it
    failures,             \* selector calls that ended in a GenerationFailure
    priced,               \* the configured model's completions report a cost
    recursion_limit,      \* nested frames the interpreter allows
    query,                \* the Thema method last called, with its argument
    answer,               \* the list that call returned
    model_arg,            \* generate_metadata: the caller's model (<< >> = None)
    max_retries_arg,      \* generate_metadata: the caller's max_retries
    completion_args,      \* << >> or <<the model and max_retries of the call>>
    model_response,       \* << >> or <<the ModelResponse of the completion>>
    metadata,             \* << >> or <<the BookMetadata generate_metadata returns>>
    descent_step,         \* << >> or <<the first selection>> of the descent
                          \*   response just handled
    levels,               \* sum of the lengths the request's branches reached
    branch_calls,         \* selector calls issued on the branch being explored
    requests,             \* predict_categories calls of the process
    loads,                \* load_thema_json calls of the process
    parses,               \* parse_thema_codes calls of the process
    load_log,             \* what the last load_thema_json call tried, in order
    page_count,           \* pdf_extract_pages: doc.page_count
    first_arg,            \* pdf_extract_pages: the caller's first (<< >> is None)
    middle_arg,           \* pdf_extract_pages: the caller's middle
    last_arg,             \* pdf_extract_pages: the caller's last
    page_numbers          \* << >> or <<the list handed to to_markdown>>

index_vars == <<query, answer>>

meta_vars == <<model_arg, max_retries_arg, completion_args, model_response,
               metadata>>

load_vars == <<requests, loads, parses, load_log>>

pages_vars == <<page_count, first_arg, middle_arg, last_arg, page_numbers>>

\* The variables the actions of thema.py's request path leave alone.
aside_vars == <<index_vars, meta_vars, load_vars, pages_vars>>

vars == <<pc, thema_codes, code_i, current_code, heading_list, hops,
          full_heading, candidates, top_level_categories, idx, branch,
          final_categories, selected_empty, result, error, calls, cost_sum,
          root_k, last_selection, failures, priced,
          recursion_limit, descent_step, levels,
          branch_calls, aside_vars>>

parse_vars == <<thema_codes, code_i, current_code, heading_list, hops,
                full_heading>>

request_vars == <<candidates, top_level_categories, idx, branch,
                  final_categories, selected_empty, result, error, calls,
                  cost_sum, root_k, last_selection, failures, priced,
                  recursion_limit,
                  descent_step, levels, branch_calls>>

\* ------------------------------------------------------- parse_thema_codes

\* full_heading.insert(0, heading)
InsertFront_append(list, heading) == Append(list, heading)

InsertFront(list, heading) == <<heading>> \o list

\* " / ".join(list), as the sequence of its tokens.
RECURSIVE Join(_)
Join(list) ==
    IF Len(list) = 0 THEN <<>>
    ELSE IF Len(list) = 1 THEN <<list[1]>>
    ELSE <<list[1], SEP>> \o Join(Tail(list))

\* The state parse_thema_codes starts the ancestor walks from.
ParseStart(t) ==
    /\ pc = "parse"
    /\ thema_codes = t
    /\ code_i = 1
    /\ current_code = 1
    /\ heading_list = <<>>
    /\ hops = 0
    /\ full_heading = [i \in 1..NumCodes |-> <<>>]

RequestIdle ==
    /\ candidates = <<>>
    /\ top_level_categories = <<>>
    /\ idx = 0
    /\ branch = <<>>
    /\ final_categories = <<>>
    /\ selected_empty = FALSE
    /\ result = <<>>
    /\ error = <<>>
    /\ calls = 0
    /\ cost_sum = 0
    /\ root_k = 0
    /\ last_selection = <<>>
    /\ failures = 0
    /\ descent_step = <<>>
    /\ levels = 0
    /\ branch_calls = 0

\* No Thema method has been called from outside the request path.
IndexIdle ==
    /\ query = <<>>
    /\ answer = <<>>

\* generate_metadata has not been called.
MetaIdle ==
    /\ model_arg = <<>>
    /\ max_retries_arg = <<>>
    /\ completion_args = <<>>
    /\ model_response = <<>>
    /\ metadata = <<>>

\* The process has, for r predict_categories requests, loaded the taxonomy
\* once from the local file and handed it to parse_thema_codes.
LoadedFor(r) ==
    /\ requests = r
    /\ loads = 1
    /\ parses = 1
    /\ load_log = <<"local_ok">>

\* The process has not touched the taxonomy.
LoadIdle ==
    /\ requests = 0
    /\ loads = 0
    /\ parses = 0
    /\ load_log = <<>>

\* pdf_extract_pages has not been called.
PagesIdle ==
    /\ page_count = 0
    /\ first_arg = <<>>
    /\ middle_arg = <<>>
    /\ last_arg = <<>>
    /\ page_numbers = <<>>

AsideIdle == IndexIdle /\ MetaIdle /\ PagesIdle

\* One pass of `while current_code:` that ends with the walk stepping up to
\* the parent node.
ParseHop ==
    /\ pc = "parse"
    /\ current_code # 0
    /\ thema_codes[current_code].parent_code # <<>>
    /\ code_dict_get(thema_codes, thema_codes[current_code].parent_code) # 0
    /\ hops < MaxHops
    /\ heading_list' =
          InsertFront(heading_list, thema_codes[current_code].category_heading)
    /\ current_code' =
          code_dict_get(thema_codes, thema_codes[current_code].parent_code)
    /\ hops' = hops + 1
    /\ UNCHANGED <<pc, thema_codes, code_i, full_heading>>
    /\ UNCHANGED request_vars
    /\ UNCHANGED aside_vars

\* The pass of `while current_code:` that ends the walk (no parent_code: break;
\* a parent_code that resolves to no node: current_code becomes None), then
\* code.full_heading = " / ".join(full_heading) and the next `code` of the for
\* loop, or the return of thema_codes after the last one.
ParseAssign ==
    /\ pc = "parse"
    /\ current_code # 0
    /\ \/ thema_codes[current_code].parent_code = <<>>
       \/ code_dict_get(thema_codes, thema_codes[current_code].parent_code) = 0
    /\ LET list == InsertFront(heading_list,
                               thema_codes[current_code].category_heading)
       IN full_heading' = [full_heading EXCEPT ![code_i] = Join(list)]
    /\ heading_list' = <<>>
    /\ hops' = 0
    /\ IF code_i < Len(thema_codes)
          THEN /\ code_i' = code_i + 1
               /\ current_code' = code_i + 1
               /\ pc' = "parse"
          ELSE /\ code_i' = code_i + 1
               /\ current_code' = 0
               /\ pc' = "parsed"
    /\ UNCHANGED thema_codes
    /\ UNCHANGED request_vars
    /\ UNCHANGED aside_vars

ParseInit ==
    /\ \E t \in RawTaxonomies : ParseStart(t)
    /\ RequestIdle
    /\ AsideIdle
    /\ LoadedFor(1)
    /\ priced = FALSE
    /\ recursion_limit = RecursionLimit

ParseNext == ParseHop \/ ParseAssign

ParseSpec == ParseInit /\ [][ParseNext]_vars

\* ------------------------------------------------------------ Thema (index)

\* str.isalpha() of one character.
Alphabetic == Letters \cup {"U+00C4"}

\* The category codes of a list of nodes: a candidate list as the prompt of
\* select_categories shows it.
CodesOf(kept) == [k \in 1..Len(kept) |-> kept[k].category_code]

\* Thema.db.get(category_code) / Thema.get: the node or None (0).
db_get(codes, category_code) == code_dict_get(codes, category_code)

\* Thema.main_subjects
main_subjects_any_single(codes) ==
    LET IsMain(code) == Len(code.category_code) = 1
    IN CodesOf(SelectSeq(codes, IsMain))

main_subjects(codes) ==
    LET IsMain(code) ==
            /\ Len(code.category_code) = 1
            /\ \A k \in 1..Len(code.category_code) :
                  code.category_code[k] \in Alphabetic
    IN CodesOf(SelectSeq(codes, IsMain))

\* Thema.sub_categories(parent), parent a node index.
sub_categories_with_self(codes, parent) ==
    LET parent_code == codes[parent].category_code
        IsSub(code) == code.parent_code = parent_code
    IN CodesOf(SelectSeq(codes, IsSub))

sub_categories(codes, parent) ==
    LET parent_code == codes[parent].category_code
        IsSub(code) ==
            /\ code.parent_code = parent_code
            /\ code.category_code # parent_code
    IN CodesOf(SelectSeq(codes, IsSub))

\* Nodes of the taxonomies the index methods are called on.
IndexLen == 3

\* Codes those nodes may carry: letters, a longer code, a digit, a letter
\* outside ASCII.
IndexCodes == {A, AB, B, ONE, UML}

\* The nodes with the code column cs and the parent column ps.
MakeNodes(cs, ps) ==
    [i \in 1..Len(cs) |->
        [category_code |-> cs[i],
         category_heading |-> "Heading",
         parent_code |-> ps[i]]]

\* The taxonomy with the codes A, AB, B, B1, C, each longer code below its
\* letter.
FiveCodes == MakeNodes(<<A, AB, B, B1, C>>, << <<>>, A, <<>>, B, <<>> >>)

\* Code columns of IndexLen nodes with pairwise different codes, in every
\* load order.
IndexCodeColumns ==
    {c \in [1..IndexLen -> IndexCodes] :
        \A i, j \in 1..IndexLen : i # j => c[i] # c[j]}

\* Parent columns for the code column cs: each CodeParent is empty or any code
\* of the data, the node's own code included.
IndexParentColumns(cs) ==
    [1..IndexLen -> {<<>>} \cup {cs[i] : i \in 1..IndexLen}]

\* A Thema object built from the data t; none of its methods has been called.
IndexStart(t) ==
    /\ pc = "parsed"
    /\ thema_codes = t
    /\ full_heading = [i \in 1..Len(t) |-> <<>>]
    /\ code_i = Len(t) + 1
    /\ current_code = 0
    /\ heading_list = <<>>
    /\ hops = 0

IndexInit ==
    /\ \/ IndexStart(FiveCodes)
       \/ \E cs \in IndexCodeColumns :
             \E ps \in IndexParentColumns(cs) : IndexStart(MakeNodes(cs, ps))
    /\ RequestIdle
    /\ AsideIdle
    /\ LoadedFor(0)
    /\ priced = FALSE
    /\ recursion_limit = RecursionLimit

\* thema.main_subjects is read.
GetMainSubjects ==
    /\ pc = "parsed"
    /\ query' = <<"main_subjects">>
    /\ answer' = main_subjects(thema_codes)
    /\ UNCHANGED pc
    /\ UNCHANGED parse_vars
    /\ UNCHANGED request_vars
    /\ UNCHANGED <<meta_vars, load_vars, pages_vars>>

\* thema.sub_categories(thema_codes[n]) is called.
GetSubCategories ==
    /\ pc = "parsed"
    /\ \E n \in 1..Len(thema_codes) :
          /\ query' = <<"sub_categories", n>>
          /\ answer' = sub_categories(thema_codes, n)
    /\ UNCHANGED pc
    /\ UNCHANGED parse_vars
    /\ UNCHANGED request_vars
    /\ UNCHANGED <<meta_vars, load_vars, pages_vars>>

IndexNext == GetMainSubjects \/ GetSubCategories

IndexSpec == IndexInit /\ [][IndexNext]_vars

\* ------------------------------------------------- main.generate_metadata

\* Largest max_retries a caller passes.
MaxRetriesArg == 2

\* mg_opts.litellm_model_name
DEFAULT_MODEL == "ollama/qwen2.5:7b-instruct-q8_0"

\* mg_opts.max_retries
DEFAULT_MAX_RETRIES == 3

\* BookMetadata.response_cost: Field(0.0)
DEFAULT_COST == 0

\* The model argument of a caller: None, the empty string, a model name.
ModelArgs == {<<>>, <<"">>, <<"gpt-4o">>}

\* The max_retries argument of a caller: None or a number.
RetriesArgs == {<<>>} \cup {<<n>> : n \in 0..MaxRetriesArg}

\* model_response["model"]: the name the backend reports for the model that
\* answered.
ReportedModels == {DEFAULT_MODEL, "gpt-4o", "gpt-4o-2024-08-06"}

\* model_response._hidden_params["response_cost"]: None or a cost.
ReportedCosts == {<<>>} \cup {<<c>> : c \in 0..MaxCost}

\* `model or mg_opts.litellm_model_name`
or_model(model) ==
    IF model = <<>> \/ model = <<"">> THEN DEFAULT_MODEL ELSE model[1]

\* `max_retries or mg_opts.max_retries`
or_max_retries(max_retries) ==
    IF max_retries = <<>> \/ max_retries = <<0>>
        THEN DEFAULT_MAX_RETRIES ELSE max_retries[1]

\* metadata.model = model_response["model"]
stamp_model_resolved(model, response) == model

stamp_model(model, response) == response.model

\* `if response_cost is not None: metadata.response_cost = response_cost`,
\* the field as it is afterwards (<< >> is None).
stamp_cost_always(field, response_cost) == response_cost

stamp_cost(field, response_cost) ==
    IF response_cost # <<>> THEN response_cost ELSE field

\* A caller is about to call generate_metadata(text, model, max_retries).
MetaInit ==
    /\ pc = "gm_entry"
    /\ model_arg \in ModelArgs
    /\ max_retries_arg \in RetriesArgs
    /\ completion_args = <<>>
    /\ model_response = <<>>
    /\ metadata = <<>>
    /\ thema_codes = <<>>
    /\ full_heading = <<>>
    /\ code_i = 0
    /\ current_code = 0
    /\ heading_list = <<>>
    /\ hops = 0
    /\ RequestIdle
    /\ IndexIdle
    /\ PagesIdle
    /\ LoadIdle
    /\ priced = TRUE
    /\ recursion_limit = RecursionLimit

meta_rest == <<parse_vars, index_vars, load_vars, pages_vars, candidates,
               top_level_categories, idx, branch, final_categories,
               selected_empty, result, calls, cost_sum, root_k, last_selection,
               failures, priced,
               recursion_limit, descent_step, levels, branch_calls>>

\* Lines 38-50: both defaults are resolved and the completion is requested.
CreateWithCompletion ==
    /\ pc = "gm_entry"
    /\ pc' = "gm_call"
    /\ completion_args' = <<[model |-> or_model(model_arg),
                             max_retries |-> or_max_retries(max_retries_arg)]>>
    /\ UNCHANGED <<model_arg, max_retries_arg, model_response, metadata, error>>
    /\ UNCHANGED meta_rest

\* Lines 51-56: the completion returned a validated BookMetadata (model and
\* response_cost at their defaults) and its ModelResponse; both are stamped.
CompletionReturns ==
    /\ pc = "gm_call"
    /\ \E reported \in ReportedModels, response_cost \in ReportedCosts :
          /\ model_response' =
                <<[model |-> reported, response_cost |-> response_cost]>>
          /\ metadata' =
                <<[model |-> stamp_model(completion_args[1].model,
                                         model_response'[1]),
                   response_cost |-> stamp_cost(<<DEFAULT_COST>>,
                                                response_cost)]>>
    /\ pc' = "gm_done"
    /\ UNCHANGED <<model_arg, max_retries_arg, completion_args, error>>
    /\ UNCHANGED meta_rest

\* The completion raised; generate_metadata has no handler.
CompletionFails ==
    /\ pc = "gm_call"
    /\ pc' = "gm_failed"
    /\ error' = <<"GenerationFailure">>
    /\ UNCHANGED meta_vars
    /\ UNCHANGED meta_rest

MetaNext == CreateWithCompletion \/ CompletionReturns \/ CompletionFails

MetaSpec == MetaInit /\ [][MetaNext]_vars

\* -------------------------------------------------- pdf.pdf_extract_pages

\* settings.py: front_pages, mid_pages and back_pages of mg_opts.
FRONT_PAGES == 8

MID_PAGES == 3

BACK_PAGES == 3

\* `x if x is not None else default` (<< >> is None).
if_not_none(x, default) == IF x # <<>> THEN x[1] ELSE default

\* list(range(start, stop)); empty when stop <= start.
range_list(start, stop) == [k \in 1..(stop - start) |-> start + k - 1]

\* Lines 49, 51 and 52: `list(range(...)) if n else []`.
first_pages(first) == IF first # 0 THEN range_list(0, first) ELSE <<>>

center(pages) == pages \div 2

middle_pages(pages, middle) ==
    IF middle # 0 THEN range_list(center(pages), center(pages) + middle)
    ELSE <<>>

last_pages(pages, last) ==
    IF last # 0 THEN range_list(pages - last, pages) ELSE <<>>

\* Lines 44-53 of pdf_extract_pages: the list handed to to_markdown.
build_page_numbers(pages, first, middle, last) ==
    first_pages(if_not_none(first, FRONT_PAGES))
        \o middle_pages(pages, if_not_none(middle, MID_PAGES))
        \o last_pages(pages, if_not_none(last, BACK_PAGES))

PageArgs == {<<>>} \cup {<<n>> : n \in 0..MaxTake}

\* A caller is about to call pdf_extract_pages(doc, first, middle, last) on
\* an open document with at least one page.
PagesInit ==
    /\ pc = "px_entry"
    /\ page_count \in 1..MaxPages
    /\ first_arg \in PageArgs
    /\ middle_arg \in PageArgs
    /\ last_arg \in PageArgs
    /\ page_numbers = <<>>
    /\ thema_codes = <<>>
    /\ full_heading = <<>>
    /\ code_i = 0
    /\ current_code = 0
    /\ heading_list = <<>>
    /\ hops = 0
    /\ RequestIdle
    /\ IndexIdle
    /\ MetaIdle
    /\ LoadIdle
    /\ priced = TRUE
    /\ recursion_limit = RecursionLimit

\* Lines 44-53: the defaults are resolved and the three ranges concatenated.
BuildPageNumbers ==
    /\ pc = "px_entry"
    /\ pc' = "px_pages"
    /\ page_numbers' =
          <<build_page_numbers(page_count, first_arg, middle_arg, last_arg)>>
    /\ UNCHANGED <<page_count, first_arg, middle_arg, last_arg>>
    /\ UNCHANGED <<parse_vars, request_vars, index_vars, meta_vars, load_vars>>

PagesNext == BuildPageNumbers

PagesSpec == PagesInit /\ [][PagesNext]_vars

\* ----------------------------------------------- predict_categories_recursive

\* Codes a selection of the language model may carry.
SelCodes == {CodeList[i] : i \in 1..NumCodes} \cup {ZZ}

\* Answers of the language model that ThemaCategories accepts by their length.
ShortResponses == UNION {[1..n -> SelCodes] : n \in 0..MAX_ITEMS}

\* Answers longer than max_items: validation rejects them whatever they hold,
\* so one answer per length and code stands for all of them.
LongResponses ==
    {[k \in 1..n |-> c] : n \in (MAX_ITEMS + 1)..MaxRaw, c \in SelCodes}

\* Raw answers of the language model to one selector call.
RawResponses == ShortResponses \cup LongResponses

\* What a completion reports as its cost: nothing (None), or a cost.
CostReports(is_priced) ==
    IF is_priced THEN {<<>>} \cup {<<c>> : c \in 1..MaxCost} ELSE {<<>>}

CostOf(report) == IF report = <<>> THEN 0 ELSE report[1]

\* Selector calls a request can issue before every branch has ended: the root
\* call and one call per frame of each branch.
MaxCalls == 1 + MAX_ITEMS * recursion_limit

\* The call counter after one more call; it stops counting one past MaxCalls,
\* a count no request reaches.
Counted(n) == IF n > MaxCalls THEN n ELSE n + 1

\* A selector call is in flight.
Calling(level, cands, i, br, final) ==
    [pc |-> level, candidates |-> cands, idx |-> i, branch |-> br,
     final |-> final, result |-> <<>>, error |-> <<>>]

\* An exception leaves predict_categories_recursive.
Raise(err, i, br, final) ==
    [pc |-> "failed", candidates |-> <<>>, idx |-> i, branch |-> br,
     final |-> final, result |-> <<>>, error |-> <<err>>]

\* predict_categories_recursive returns its ThemaCategories.
Return(categories, i, final) ==
    [pc |-> "done", candidates |-> <<>>, idx |-> i, branch |-> <<>>,
     final |-> final, result |-> <<[categories |-> categories]>>,
     error |-> <<>>]

\* ThemaCategories validation of a list of selections (max_items).
ValidCategories_four(categories) == Len(categories) <= TOP_N

ValidCategories(categories) == Len(categories) <= MAX_ITEMS

\* final_categories[:4]
Truncate(final) == SubSeq(final, 1, Min2(TOP_N, Len(final)))

\* branch[-1]
Deepest_top(br) == br[1]

Deepest(br) == br[Len(br)]

\* `if not subcategories: return []`
NoSubcategories_unchecked(subcategories) == FALSE

NoSubcategories(subcategories) == subcategories = <<>>

\* return ThemaCategories(categories=final_categories[:4])
construct_result(i, final) ==
    IF ValidCategories(Truncate(final))
        THEN Return(Truncate(final), i, final)
        ELSE Raise("ValidationError", i, <<>>, final)

RECURSIVE for_loop(_, _, _, _)
RECURSIVE select_subcategories(_, _, _, _, _)

\* final_categories.append(branch[-1]) and the next pass of the for loop.
branch_done(codes, top, i, final, br) ==
    for_loop(codes, top, i + 1, Append(final, Deepest(br)))

\* select_subcategories(parent_category) up to its selector call, where
\* parent_category is br[-1] and the frame is the Len(br)-th nested one.
select_subcategories(codes, top, i, final, br) ==
    IF Len(br) > recursion_limit
        THEN Raise("RecursionError", i, br, final)
    ELSE IF db_get(codes, Last(br)) = 0
        THEN Raise("KeyError", i, br, final)
    ELSE LET subcategories == sub_categories(codes, db_get(codes, Last(br)))
         IN IF NoSubcategories(subcategories)
                THEN branch_done(codes, top, i, final, br)
                ELSE Calling("sub_call", subcategories, i, br, final)

\* `for category in top_level_categories:` from its i-th pass on, up to the
\* next selector call or the return.
for_loop_reversed(codes, top, i, final) ==
    IF i > Len(top)
        THEN construct_result(i, final)
        ELSE select_subcategories(codes, top, i, final,
                                  <<top[Len(top) + 1 - i]>>)

for_loop(codes, top, i, final) ==
    IF i > Len(top)
        THEN construct_result(i, final)
        ELSE select_subcategories(codes, top, i, final, <<top[i]>>)

\* The log loop of select_categories: thema.get(cat.category_code).full_heading
\* is evaluated for every selection of the response.
LogRaises(codes, response) ==
    \E k \in 1..Len(response) : db_get(codes, response[k]) = 0

\* `if not selected: return []` of the frame whose call returned nothing.
on_empty_retry(codes, top, i, final, br) ==
    Calling("sub_call", sub_categories(codes, db_get(codes, Last(br))),
            i, br, final)

on_empty(codes, top, i, final, br) == branch_done(codes, top, i, final, br)

\* The completion raised: nothing in thema.py catches it.
on_failure_isolated(codes, top, i, final, br) ==
    IF br = <<>> THEN for_loop(codes, <<>>, 1, <<>>)
    ELSE branch_done(codes, top, i, final, br)

on_failure_retry(codes, top, i, final, br) ==
    IF br = <<>>
        THEN Calling("root_call", main_subjects(codes), 0, <<>>, <<>>)
        ELSE Calling("sub_call",
                     sub_categories(codes, db_get(codes, Last(br))),
                     i, br, final)

on_failure(codes, top, i, final, br) ==
    Raise("GenerationFailure", i, br, final)

\* `result = [selected[0]]`: the selection a frame descends into.
Followed_last(selected) == selected[Len(selected)]

Followed(selected) == selected[1]

\* The code after the root call's select_categories returned `response`.
after_root(codes, response) ==
    IF LogRaises(codes, response)
        THEN Raise("AttributeError", 0, <<>>, <<>>)
        ELSE for_loop(codes, response, 1, <<>>)

\* The code after a descent call's select_categories returned `response`.
after_sub(codes, top, i, final, br, response) ==
    IF LogRaises(codes, response)
        THEN Raise("AttributeError", i, br, final)
    ELSE IF response = <<>>
        THEN on_empty(codes, top, i, final, br)
    ELSE select_subcategories(codes, top, i, final,
                              Append(br, Followed(response)))

\* The request's variables take the values of the continuation st.
Become(st) ==
    /\ pc' = st.pc
    /\ candidates' = st.candidates
    /\ idx' = st.idx
    /\ branch' = st.branch
    /\ final_categories' = st.final
    /\ result' = st.result
    /\ error' = st.error

IsCall(st) == st.pc \in {"root_call", "sub_call"}

\* Passes of `for category in top_level_categories:` the code began between
\* its i-th pass and the continuation st.
Started(st, top, i) == Min2(st.idx, Len(top)) - i

\* Thema() is built and predict_categories_recursive issues the root call.
Start ==
    /\ pc = "parsed"
    /\ Become(Calling("root_call", main_subjects(thema_codes), 0, <<>>, <<>>))
    /\ calls' = 1
    /\ UNCHANGED <<top_level_categories, selected_empty, cost_sum, root_k,
                   last_selection, failures, priced,
                   recursion_limit, descent_step, levels,
                   branch_calls>>
    /\ UNCHANGED parse_vars
    /\ UNCHANGED aside_vars

\* The completion of the call in flight raises (retries exhausted, transport).
SelectorFails ==
    /\ pc \in {"root_call", "sub_call"}
    /\ \E st \in {on_failure(thema_codes, top_level_categories, idx,
                             final_categories, branch)} :
          /\ Become(st)
          /\ calls' = IF IsCall(st) THEN Counted(calls) ELSE calls
    /\ failures' = failures + 1
    /\ descent_step' = <<>>
    /\ UNCHANGED <<top_level_categories, selected_empty, cost_sum, root_k,
                   last_selection, priced,
                   recursion_limit, levels, branch_calls>>
    /\ UNCHANGED parse_vars
    /\ UNCHANGED aside_vars

\* The root call's completion answers `raw` and reports `cost`.
RootReturn ==
    /\ pc = "root_call"
    /\ \E raw \in RawResponses, cost \in CostReports(priced) :
          \E ok \in {ValidCategories(raw)} :
          \E logged \in {ok /\ ~LogRaises(thema_codes, raw)} :
          \E st \in {IF ok THEN after_root(thema_codes, raw)
                     ELSE on_failure(thema_codes, <<>>, 0, <<>>, <<>>)} :
             /\ Become(st)
             /\ calls' = IF IsCall(st) THEN Counted(calls) ELSE calls
             /\ root_k' = Len(raw)
             /\ failures' = IF ok THEN failures ELSE failures + 1
             /\ cost_sum' = IF ok THEN cost_sum + CostOf(cost) ELSE cost_sum
             /\ top_level_categories' =
                   IF logged THEN raw ELSE top_level_categories
             /\ last_selection' = IF logged THEN raw ELSE last_selection
             /\ levels' = IF logged THEN Started(st, raw, 0) ELSE levels
             /\ branch_calls' = IF IsCall(st) THEN 1 ELSE 0
    /\ descent_step' = <<>>
    /\ UNCHANGED <<selected_empty, priced, recursion_limit>>
    /\ UNCHANGED parse_vars
    /\ UNCHANGED aside_vars

\* A descent call's completion answers `raw` and reports `cost`.
SubReturn ==
    /\ pc = "sub_call"
    /\ \E raw \in RawResponses, cost \in CostReports(priced) :
          \E ok \in {ValidCategories(raw)} :
          \E logged \in {ok /\ ~LogRaises(thema_codes, raw)} :
          \E st \in {IF ok
                     THEN after_sub(thema_codes, top_level_categories, idx,
                                    final_categories, branch, raw)
                     ELSE on_failure(thema_codes, top_level_categories, idx,
                                     final_categories, branch)} :
             /\ Become(st)
             /\ calls' = IF IsCall(st) THEN Counted(calls) ELSE calls
             /\ failures' = IF ok THEN failures ELSE failures + 1
             /\ cost_sum' = IF ok THEN cost_sum + CostOf(cost) ELSE cost_sum
             /\ selected_empty' = IF logged THEN raw = <<>> ELSE selected_empty
             /\ last_selection' =
                   IF logged /\ raw # <<>>
                   THEN [last_selection EXCEPT ![idx] = raw[1]]
                   ELSE last_selection
             /\ descent_step' =
                   IF logged /\ raw # <<>>
                   THEN <<raw[1]>>
                   ELSE <<>>
             /\ levels' =
                   IF logged
                   THEN levels + Len(descent_step')
                        + Started(st, top_level_categories, idx)
                   ELSE levels
             /\ branch_calls' =
                   IF ~IsCall(st) THEN branch_calls
                   ELSE IF st.idx = idx THEN branch_calls + 1 ELSE 1
    /\ UNCHANGED <<top_level_categories, root_k, priced, recursion_limit>>
    /\ UNCHANGED parse_vars
    /\ UNCHANGED aside_vars

\* The taxonomy of the worked example: A and B are main subjects, AB is a
\* subcategory of A.
ExampleTaxonomy == MakeCodes(<< <<>>, A, <<>> >>)

Init ==
    /\ \E t \in Taxonomies : ParseStart(t)
    /\ RequestIdle
    /\ AsideIdle
    /\ LoadedFor(1)
    /\ priced = FALSE
    /\ recursion_limit = RecursionLimit

\* The same program with a model whose completions report costs.
PricedInit ==
    /\ ParseStart(ExampleTaxonomy)
    /\ RequestIdle
    /\ AsideIdle
    /\ LoadedFor(1)
    /\ priced = TRUE
    /\ recursion_limit = RecursionLimit

Next ==
    \/ ParseHop
    \/ ParseAssign
    \/ Start
    \/ SelectorFails
    \/ RootReturn
    \/ SubReturn

Spec == Init /\ [][Next]_vars

PricedSpec == PricedInit /\ [][Next]_vars

\* The same program on an interpreter that allows one more nested frame.
DeepInit ==
    /\ ParseStart(ExampleTaxonomy)
    /\ RequestIdle
    /\ AsideIdle
    /\ LoadedFor(1)
    /\ priced = FALSE
    /\ recursion_limit = RecursionLimit + 1

DeepSpec == DeepInit /\ [][Next]_vars

\* Every completion returns or raises (the call chain is synchronous and
\* blocking), and the interpreter keeps running the code between two calls.
FairSpec == Init /\ [][Next]_vars /\ WF_vars(Next)

\* ------------------------------------------- predict_categories (process)

\* predict_categories calls one process makes.
MaxRequests == 2

\* `thema = Thema()` in predict_categories: the load_thema_json calls of the
\* process after one more request.
construct_thema(n) == n + 1

\* load_thema_json after its local read: `return json.load(f)` hands the data
\* to parse_thema_codes, an exception enters the handler that fetches.
after_local_read_fetch(ok) == "load_remote"

after_local_read(ok) == IF ok THEN "parse" ELSE "load_remote"

\* load_thema_json returned the data t: parse_thema_codes(self.data) begins.
ParseBegins(t) ==
    /\ pc' = "parse"
    /\ thema_codes' = t
    /\ code_i' = 1
    /\ current_code' = 1
    /\ heading_list' = <<>>
    /\ hops' = 0
    /\ full_heading' = [i \in 1..Len(t) |-> <<>>]
    /\ parses' = parses + 1

\* The locals of a new predict_categories call.
RequestReset ==
    /\ candidates' = <<>>
    /\ top_level_categories' = <<>>
    /\ idx' = 0
    /\ branch' = <<>>
    /\ final_categories' = <<>>
    /\ selected_empty' = FALSE
    /\ result' = <<>>
    /\ error' = <<>>
    /\ calls' = 0
    /\ cost_sum' = 0
    /\ root_k' = 0
    /\ last_selection' = <<>>
    /\ failures' = 0
    /\ descent_step' = <<>>
    /\ levels' = 0
    /\ branch_calls' = 0

\* The request's variables but `error`.
request_locals == <<candidates, top_level_categories, idx, branch,
                    final_categories, selected_empty, result, calls, cost_sum,
                    root_k, last_selection, failures, priced,
                    recursion_limit, descent_step,
                    levels, branch_calls>>

\* A process that has imported thema.py and not yet called anything.
ProcessInit ==
    /\ pc = "idle"
    /\ thema_codes = <<>>
    /\ full_heading = <<>>
    /\ code_i = 0
    /\ current_code = 0
    /\ heading_list = <<>>
    /\ hops = 0
    /\ RequestIdle
    /\ AsideIdle
    /\ LoadIdle
    /\ priced = FALSE
    /\ recursion_limit = RecursionLimit

\* predict_categories(doc) is called: `thema = Thema()` enters __init__ and
\* load_thema_json; the Thema of an earlier call is gone.
PredictCategories ==
    /\ pc \in {"idle", "done", "failed"}
    /\ requests < MaxRequests
    /\ pc' = "load_local"
    /\ requests' = requests + 1
    /\ loads' = construct_thema(loads)
    /\ load_log' = <<>>
    /\ thema_codes' = <<>>
    /\ full_heading' = <<>>
    /\ code_i' = 0
    /\ current_code' = 0
    /\ heading_list' = <<>>
    /\ hops' = 0
    /\ RequestReset
    /\ UNCHANGED <<parses, priced, recursion_limit, index_vars, meta_vars,
                   pages_vars>>

\* The try block of load_thema_json: open(THEMA_PATH) and json.load(f) return
\* the data or raise.
LocalRead ==
    /\ pc = "load_local"
    /\ \E ok \in BOOLEAN :
          /\ load_log' =
                Append(load_log, IF ok THEN "local_ok" ELSE "local_failed")
          /\ IF after_local_read(ok) = "parse"
                THEN ParseBegins(ExampleTaxonomy)
                ELSE /\ pc' = after_local_read(ok)
                     /\ UNCHANGED parse_vars
                     /\ UNCHANGED parses
    /\ UNCHANGED <<requests, loads, error>>
    /\ UNCHANGED <<request_locals, index_vars, meta_vars, pages_vars>>

\* The except block of load_thema_json: client.get(THEMA_JSON_URL).json()
\* returns the data or raises, and nothing catches that.
RemoteFetch ==
    /\ pc = "load_remote"
    /\ \E ok \in BOOLEAN :
          /\ load_log' =
                Append(load_log, IF ok THEN "remote_ok" ELSE "remote_failed")
          /\ IF ok
                THEN ParseBegins(ExampleTaxonomy) /\ UNCHANGED error
                ELSE /\ pc' = "failed"
                     /\ error' = <<"HTTPError">>
                     /\ UNCHANGED parse_vars
                     /\ UNCHANGED parses
    /\ UNCHANGED <<requests, loads>>
    /\ UNCHANGED <<request_locals, index_vars, meta_vars, pages_vars>>

ProcessNext ==
    \/ PredictCategories
    \/ LocalRead
    \/ RemoteFetch
    \/ ParseHop
    \/ ParseAssign
    \/ Start
    \/ SelectorFails
    \/ RootReturn
    \/ SubReturn

ProcessSpec == ProcessInit /\ [][ProcessNext]_vars

\* ------------------------------------------------------------------ claims

Terminated == pc \in {"done", "failed"}

\* C1: when predict_categories_recursive returns, the collected list holds
\* exactly one entry per top-level selection, in top-level order, and each
\* entry is the last selection made on its branch (the top-level selection
\* itself when no deeper selection was made). The entries collected so far
\* satisfy this at every moment of the request.
C1_OneDeepestPerBranch ==
    /\ Len(final_categories) <= Len(last_selection)
    /\ \A i \in 1..Len(final_categories) :
          final_categories[i] = last_selection[i]
    /\ pc = "done" =>
          /\ Len(final_categories) = Len(top_level_categories)
          /\ final_categories = last_selection

\* A request returned after following two branches, one of which ended below
\* its top-level selection and one at it.
C1_Witness ==
    /\ pc = "done"
    /\ Len(top_level_categories) >= 2
    /\ \E i \in 1..Len(final_categories) :
          final_categories[i] # top_level_categories[i]
    /\ \E i \in 1..Len(final_categories) :
          final_categories[i] = top_level_categories[i]

\* C2 (as claimed): a root answer of k selections, k > 4 included, is followed
\* by a successful request whose selections are the final nodes of the first
\* min(k, 4) branches in top-level order; never more than 4 selections. The
\* request may still fail later, in a descent call or on an absent code, but
\* not at the root call because of the number of selections it was given.
C2_CapAtFour ==
    /\ pc = "done" =>
          /\ Len(result[1].categories) <= TOP_N
          /\ result[1].categories =
                SubSeq(last_selection, 1, Min2(root_k, TOP_N))
    /\ ~(/\ pc = "failed"
         /\ root_k > 0
         /\ calls = 1
         /\ error = <<"GenerationFailure">>)

\* The cost field a result carries, << >> when it carries none.
CostField(r) ==
    IF "total_cost" \in DOMAIN r THEN <<r.total_cost>>
    ELSE IF "response_cost" \in DOMAIN r THEN <<r.response_cost>>
    ELSE <<>>

\* C3 (as claimed): the result carries a total cost equal to the sum of the
\* costs reported by every selector call of the request (no cost counts 0).
C3_TotalCost == pc = "done" => CostField(result[1]) = <<cost_sum>>

\* C4: when a descent call returns an empty list the branch ends at once: the
\* branch_best held before the call is collected as the branch's final node,
\* and the next call, if any, belongs to a later branch; the for loop never
\* goes back to an earlier branch.
C4_EmptyEndsBranch ==
    /\ [][(pc = "sub_call" /\ pc' # "failed" /\ selected_empty') =>
             /\ Len(final_categories') > Len(final_categories)
             /\ final_categories'[Len(final_categories) + 1] = Last(branch)
             /\ SubSeq(final_categories', 1, Len(final_categories))
                   = final_categories
             /\ idx' > idx]_vars
    /\ [][idx' >= idx]_vars

\* A branch below its top-level selection was ended by an empty answer.
C4_Witness ==
    /\ selected_empty
    /\ pc = "done"
    /\ \E i \in 1..Len(final_categories) :
          final_categories[i] # top_level_categories[i]

\* No node of the taxonomy has a subcategory.
NoChildren(codes) ==
    \A i \in DOMAIN codes : sub_categories(codes, i) = <<>>

\* C5: the selector is never invoked with an empty candidate list during
\* descent, and on a taxonomy in which no node has children a request makes
\* exactly one selector call, the root call.
C5_NoEmptyDescentCall ==
    /\ pc = "sub_call" => candidates # <<>>
    /\ (NoChildren(thema_codes) /\ pc \notin {"parse", "parsed"}) =>
          /\ pc # "sub_call"
          /\ calls = 1

\* A request on a childless taxonomy returned two selections after one call.
C5_Witness ==
    /\ NoChildren(thema_codes)
    /\ pc = "done"
    /\ Len(result[1].categories) >= 2
    /\ calls = 1

\* C6: every classification request terminates, by returning or by failing,
\* whatever the acyclic taxonomy and whatever the selector answers, answers
\* that name a code outside the offered candidates included: a request whose
\* root call is in flight reaches its end, and it never issues more selector
\* calls than the root call plus one call per frame of each branch (every step
\* of a request that does not end it issues a call, so no run is infinite).
C6_RequestTerminates ==
    /\ (pc = "root_call") ~> Terminated
    /\ [](calls <= MaxCalls)

\* A descent that kept being sent to nodes outside the candidate list ended
\* at the interpreter's recursion limit.
C6_Witness ==
    /\ pc = "failed"
    /\ error = <<"RecursionError">>
    /\ Len(branch) > recursion_limit

\* C7: once a selector call has failed, at whatever level of whatever branch,
\* the request has failed with that failure and has returned no result, the
\* selections collected from earlier branches included.
C7_FailurePropagates ==
    failures > 0 =>
        /\ pc = "failed"
        /\ error = <<"GenerationFailure">>
        /\ result = <<>>
        /\ failures = 1

\* A descent call below the second level of a later branch failed after an
\* earlier branch had been collected.
C7_Witness ==
    /\ failures > 0
    /\ final_categories # <<>>
    /\ Len(branch) >= 2
    /\ result = <<>>

\* C8 (as claimed): a selection whose code is absent from the taxonomy index
\* never crashes the request: the absent node is never dereferenced.
C8_AbsentCodeNoCrash ==
    error \notin {<<"AttributeError">>, <<"KeyError">>}

\* C9 (as claimed): the ancestor walk of a node takes at most N hops for N
\* nodes; data whose parent links hold a cycle fails instead of walking on.
C9_WalkBounded == pc = "parse" => hops <= NumCodes

\* The nodes from the one the walk of node i ends at down to node i.
RECURSIVE AncestorChain(_, _)
AncestorChain(codes, i) ==
    LET up == IF codes[i].parent_code = <<>> THEN 0
              ELSE code_dict_get(codes, codes[i].parent_code)
    IN IF up = 0 THEN <<i>> ELSE Append(AncestorChain(codes, up), i)

\* C10: every assigned full_heading is the headings of the node's ancestor
\* chain joined by " / ", from the topmost reachable ancestor down to the node
\* itself; a parent_code that resolves to no node ends the chain at its node.
C10_FullHeading ==
    \A i \in 1..(code_i - 1) :
        LET chain == AncestorChain(thema_codes, i)
        IN /\ Len(full_heading[i]) = 2 * Len(chain) - 1
           /\ \A k \in 1..Len(chain) :
                 full_heading[i][2 * k - 1]
                     = thema_codes[chain[k]].category_heading
           /\ \A k \in 1..(Len(chain) - 1) : full_heading[i][2 * k] = SEP

\* Parsing returned for data in which a node hangs below a node whose own
\* parent_code resolves to no node.
C10_Witness ==
    /\ pc = "parsed"
    /\ \E i, j \in DOMAIN thema_codes :
          /\ thema_codes[i].parent_code = ZZ
          /\ thema_codes[j].parent_code = thema_codes[i].category_code
          /\ full_heading[j] = <<thema_codes[i].category_heading, SEP,
                                 thema_codes[j].category_heading>>

\* The codes of a list.
Range(list) == {list[k] : k \in 1..Len(list)}

\* list names nodes of codes, no node twice, in the order the data lists them.
InLoadOrder(list, codes) ==
    \A p, q \in 1..Len(list) :
        p < q => /\ code_dict_get(codes, list[p]) # 0
                 /\ code_dict_get(codes, list[p]) < code_dict_get(codes, list[q])

\* ^[A-Za-z]$
OneAsciiLetter(code) == Len(code) = 1 /\ code[1] \in Letters

\* One character that str.isalpha() accepts.
OneLetter(code) == Len(code) = 1 /\ code[1] \in Alphabetic

\* C11 as stated: main_subjects holds exactly the codes that are one ASCII
\* letter, in load order, and is [A, B, C] for the codes A, AB, B, B1, C.
C11_AsciiRoots ==
    query = <<"main_subjects">> =>
        /\ Range(answer) =
              {thema_codes[i].category_code : i \in
                  {j \in DOMAIN thema_codes :
                      OneAsciiLetter(thema_codes[j].category_code)}}
        /\ InLoadOrder(answer, thema_codes)
        /\ thema_codes = FiveCodes => answer = <<A, B, C>>

\* C11: main_subjects holds exactly the codes that are one alphabetic
\* character in the sense of str.isalpha() (a letter outside ASCII included,
\* a digit not), in load order without re-sorting, and is [A, B, C] for the
\* codes A, AB, B, B1, C.
C11_AlphabeticRoots ==
    query = <<"main_subjects">> =>
        /\ Range(answer) =
              {thema_codes[i].category_code : i \in
                  {j \in DOMAIN thema_codes :
                      OneLetter(thema_codes[j].category_code)}}
        /\ InLoadOrder(answer, thema_codes)
        /\ thema_codes = FiveCodes => answer = <<A, B, C>>

\* main_subjects was read on data that lists the letter outside ASCII before
\* A, next to a digit code: both letters are returned, in that order.
C11_Witness ==
    /\ query = <<"main_subjects">>
    /\ answer = <<UML, A>>
    /\ \E i \in DOMAIN thema_codes : thema_codes[i].category_code = ONE

\* C12: sub_categories(n) holds exactly the codes of the nodes whose
\* parent_code is n's code and whose own code is not n's code, in load order;
\* n's own code is never in it, also when the data names n as its own parent.
C12_ChildrenOnly ==
    (Len(query) = 2 /\ query[1] = "sub_categories") =>
        LET n_code == thema_codes[query[2]].category_code
        IN /\ Range(answer) =
                 {thema_codes[i].category_code : i \in
                     {j \in DOMAIN thema_codes :
                         /\ thema_codes[j].parent_code = n_code
                         /\ thema_codes[j].category_code # n_code}}
           /\ InLoadOrder(answer, thema_codes)
           /\ n_code \notin Range(answer)

\* sub_categories was called for a node that the data names as its own
\* parent and that has two other children.
C12_Witness ==
    /\ Len(query) = 2
    /\ query[1] = "sub_categories"
    /\ thema_codes[query[2]].parent_code = thema_codes[query[2]].category_code
    /\ Len(answer) = 2

\* C13: generate_metadata overwrites response_cost only with a cost that the
\* completion reports: the returned metadata carries the reported cost when
\* there is one and the default 0.0 when the report is None, never None.
C13_CostStamp ==
    pc = "gm_done" =>
        /\ metadata[1].response_cost # <<>>
        /\ model_response[1].response_cost = <<>> =>
              metadata[1].response_cost = <<0>>
        /\ model_response[1].response_cost # <<>> =>
              metadata[1].response_cost = model_response[1].response_cost

\* generate_metadata returned after a completion that reported no cost.
C13_Witness ==
    /\ pc = "gm_done"
    /\ model_response[1].response_cost = <<>>
    /\ metadata[1].response_cost = <<0>>

\* The model the call is made with: the caller's, or the configured default.
ResolvedModel ==
    IF model_arg \in {<<>>, <<"">>}
        THEN "ollama/qwen2.5:7b-instruct-q8_0" ELSE model_arg[1]

\* C14 as stated: on success metadata.model is the resolved model that was
\* passed to the completion call, the caller's override or else the default.
C14_ResolvedModel ==
    pc = "gm_done" =>
        /\ completion_args[1].model = ResolvedModel
        /\ metadata[1].model = completion_args[1].model

\* C14: the completion is called with the resolved model (the caller's
\* non-empty override, otherwise the configured default), and on success
\* metadata.model is the model name the completion's response reports, which
\* need not be the name that was passed.
C14_ReportedModel ==
    /\ pc \in {"gm_call", "gm_done", "gm_failed"} =>
          completion_args[1].model = ResolvedModel
    /\ pc = "gm_done" => metadata[1].model = model_response[1].model

\* generate_metadata returned for a caller's override that the backend
\* reported under another name.
C14_Witness ==
    /\ pc = "gm_done"
    /\ model_arg = <<"gpt-4o">>
    /\ model_response[1].model = "gpt-4o-2024-08-06"
    /\ metadata[1].model = "gpt-4o-2024-08-06"

\* The full_heading parse_thema_codes computes for every node of codes.
HeadingsOf(codes) ==
    [i \in 1..Len(codes) |->
        LET chain == AncestorChain(codes, i)
        IN Join([k \in 1..Len(chain) |-> codes[chain[k]].category_heading])]

\* A request holds a Thema whose nodes are as its parse left them.
NodesAsParsed ==
    (pc \in {"parsed", "root_call", "sub_call", "done"}
        \/ (pc = "failed" /\ thema_codes # <<>>)) =>
        /\ thema_codes = ExampleTaxonomy
        /\ full_heading = HeadingsOf(ExampleTaxonomy)

\* C15 as stated: over any sequence of requests of one process the taxonomy
\* is loaded and parsed once, and no request changes a node after the
\* ancestry computation.
C15_LoadedOnce ==
    /\ requests >= 1 => loads = 1
    /\ parses <= 1
    /\ NodesAsParsed

\* C16: load_thema_json reads the local file first and fetches only after
\* the local read has failed; after a local success nothing is fetched; when
\* both fail the load raises and no data is handed on.
C16_LocalFirst ==
    /\ \A k \in 1..Len(load_log) :
          /\ k = 1 => load_log[k] \in {"local_ok", "local_failed"}
          /\ load_log[k] \in {"remote_ok", "remote_failed"} =>
                k > 1 /\ load_log[k - 1] = "local_failed"
          /\ load_log[k] = "local_ok" => Len(load_log) = 1
    /\ load_log = <<"local_failed", "remote_failed">> =>
          /\ pc = "failed"
          /\ error = <<"HTTPError">>
          /\ thema_codes = <<>>
    /\ thema_codes # <<>> =>
          \E k \in 1..Len(load_log) : load_log[k] \in {"local_ok", "remote_ok"}
    /\ pc = "load_remote" => load_log = <<"local_failed">>

\* A load whose local read and remote fetch both failed.
C16_Witness ==
    /\ load_log = <<"local_failed", "remote_failed">>
    /\ pc = "failed"

\* Nodes on the ancestor chain of the node that carries category_code: 1 for
\* a main subject.
Depth(codes, category_code) ==
    Len(AncestorChain(codes, db_get(codes, category_code)))

\* C17: at every descent step the first selection of the response, which the
\* frame follows as the new branch_best, is one of the candidates offered to
\* that selector call, the children of the previous branch_best, so it lies
\* deeper in the taxonomy than the previous branch_best.
C17_DescentIntoChildren ==
    [][descent_step' # <<>> =>
          /\ descent_step'[1] \in Range(candidates)
          /\ Depth(thema_codes, descent_step'[1])
                > Depth(thema_codes, Last(branch))]_vars

\* The selections an accepted answer may carry after its first one.
Alternates == UNION {[1..n -> SelCodes] : n \in 1..(MAX_ITEMS - 1)}

\* Whatever accepted answer the descent call in flight gets, the code goes on
\* as it does for the answer cut down to its first selection; an answer whose
\* logging raises ends the request without a call or a result.
FirstSelectionDecides ==
    pc = "sub_call" =>
        \A first \in SelCodes :
            \A alone \in {after_sub(thema_codes, top_level_categories, idx,
                                     final_categories, branch, <<first>>)} :
                \A later \in Alternates :
                    LET st == after_sub(thema_codes, top_level_categories, idx,
                                        final_categories, branch,
                                        <<first>> \o later)
                    IN IF LogRaises(thema_codes, <<first>> \o later)
                         THEN st.pc = "failed"
                         ELSE st = alone

\* C18: when a descent call returns a non-empty list only its first element
\* is followed: it becomes the branch's last entry, the next candidate list
\* on the branch is its children, a branch that ends there collects it, and
\* the later elements change neither the next call nor the result.
C18_FirstOnly ==
    /\ []FirstSelectionDecides
    /\ [][descent_step' # <<>> =>
            /\ (pc' = "sub_call" /\ idx' = idx) =>
                  /\ branch' = Append(branch, descent_step'[1])
                  /\ candidates' =
                        sub_categories(thema_codes,
                                       db_get(thema_codes, descent_step'[1]))
            /\ (pc' = "done" \/ idx' > idx) =>
                  final_categories'[idx] = descent_step'[1]]_vars

\* A descent response was followed into a node that has children: the next
\* call on the branch offers them.
C18_Witness ==
    /\ pc = "sub_call"
    /\ descent_step # <<>>
    /\ Len(branch) = 2
    /\ Last(branch) = descent_step[1]
    /\ candidates # <<>>

\* Nodes on the longest ancestor chain of the taxonomy.
TaxonomyDepth(codes) ==
    Max({Depth(codes, codes[i].category_code) : i \in DOMAIN codes})

\* C19: a request issues at most 1 selector call (the root call) plus, summed
\* over the top-level branches it follows, the levels the branch went through,
\* and the calls on one branch never exceed the taxonomy's maximum depth.
C19_CallBudget ==
    /\ calls <= 1 + levels
    /\ branch_calls <= TaxonomyDepth(thema_codes)

\* C20: selector calls are issued one at a time, each only by the code that
\* runs after the previous call returned, and the branches are explored
\* depth-first in top-level order: while a descent call is in flight it
\* belongs to the branch of the idx-th top-level selection, every earlier
\* branch has ended and been collected, and no later branch has begun.
C20_SequentialDepthFirst ==
    /\ [](pc = "sub_call" =>
            /\ idx \in 1..Len(top_level_categories)
            /\ branch[1] = top_level_categories[idx]
            /\ Len(final_categories) = idx - 1
            /\ branch_calls = Len(branch))
    /\ [][/\ calls' <= calls + 1
          /\ calls' = calls + 1 => pc \in {"parsed", "root_call", "sub_call"}
          /\ pc' = "sub_call" =>
                /\ idx' >= idx
                /\ idx' = idx => branch_calls' = branch_calls + 1
                /\ idx' > idx =>
                      /\ branch_calls' = 1
                      /\ SubSeq(final_categories', 1, Len(final_categories))
                            = final_categories]_vars

\* The first call of the second branch is in flight after the calls of the
\* first branch have returned.
C20_Witness ==
    /\ pc = "sub_call"
    /\ idx = 2
    /\ branch_calls = 1
    /\ calls >= 3

\* C21: every answer the response model accepts holds at most 3 selections,
\* so a request follows at most 3 top-level branches, collects at most 3
\* selections and returns at most 3, and the construction of the returned
\* ThemaCategories never fails validation.
C21_AtMostThree ==
    /\ pc \in {"root_call", "sub_call"} =>
          \A raw \in RawResponses : ValidCategories(raw) => Len(raw) <= 3
    /\ Len(top_level_categories) <= 3
    /\ idx <= 4
    /\ Len(final_categories) <= 3
    /\ result # <<>> => Len(result[1].categories) <= 3
    /\ error # <<"ValidationError">>

\* A request returned three selections after following three top-level
\* branches.
C21_Witness ==
    /\ pc = "done"
    /\ Len(top_level_categories) = 3
    /\ Len(result[1].categories) = 3

\* C22: for every document of p >= 1 pages and every non-negative first,
\* middle and last, the list pdf_extract_pages hands to to_markdown holds
\* only indices in 0..p-1 and holds no index twice.
C22_PagesInRangeOnce ==
    pc = "px_pages" =>
        /\ \A k \in 1..Len(page_numbers[1]) :
              page_numbers[1][k] \in 0..(page_count - 1)
        /\ \A j, k \in 1..Len(page_numbers[1]) :
              page_numbers[1][j] = page_numbers[1][k] => j = k

\* C23: the completion call receives exactly the max_retries the caller
\* passed to generate_metadata, whatever integer it is (0 included), and the
\* configured default only when the caller passed none.
C23_CallerMaxRetries ==
    pc \in {"gm_call", "gm_done", "gm_failed"} =>
        completion_args[1].max_retries =
            IF max_retries_arg = <<>> THEN DEFAULT_MAX_RETRIES
            ELSE max_retries_arg[1]

====
